---- MODULE Spec2Model ----
(***************************************************************************)
(* Model of blockifier's CachedState (src/blockifier/src/cached_state.rs): *)
(* a two-layer storage cache (StateCache) in front of an injected          *)
(* StateReader, with DictStateReader as the dictionary-backed reader.      *)
(*                                                                         *)
(* HashMap<K, V> is a function whose DOMAIN is the set of keys present.    *)
(* Option<V> is <<"None">> or <<"Some", v>>.                               *)
(* Result<V> is [ok |-> TRUE, value |-> v] or [ok |-> FALSE, error |-> e]. *)
(***************************************************************************)
EXTENDS Integers, Sequences, FiniteSets, TLC

\* ---------------------------------------------------------------- bounds
\* Largest felt value drawn as an input (StarkFelt values are 0..MaxFelt).
MaxFelt == 1
\* Largest number of state reader queries counted per cell.
MaxQueries == 2
\* Largest number of CachedState / DictStateReader calls in one behaviour.
MaxOps == 3
\* Largest number of changes the owner makes to the pub state_reader.
MaxReaderChanges == 1

\* ---------------------------------------------------------------- inputs
Addresses == {"addrA", "addrB"}
Keys      == {"key1", "key2"}
\* type ContractStorageKey = (ContractAddress, StorageKey).  The cells drawn
\* as inputs: two of them share an address, two of them share a storage key.
ContractStorageKey == (Addresses \X Keys) \ {<<"addrB", "key2">>}
StarkFelt == 0 .. MaxFelt

\* ---------------------------------------------------------------- values
None     == <<"None">>
Some(v)  == <<"Some", v>>
Ok(v)    == [ok |-> TRUE, value |-> v]
Err(e)   == [ok |-> FALSE, error |-> e]
\* The unit value returned by set_storage_at.
Unit     == "()"
\* The error a StateReader implementation answers a failed query with.
SourceUnavailable == "SourceUnavailable"
\* The error of the with_context at the end of CachedState::get_storage_at.
CannotRetrieve == "Cannot retrieve from the cache"

\* HashMap::get
MapGet(m, k) == IF k \in DOMAIN m THEN Some(m[k]) ELSE None
\* HashMap::insert (blind insert: an existing entry is overwritten)
MapInsert(m, k, v) == [x \in (DOMAIN m) \cup {k} |-> IF x = k THEN v ELSE m[x]]
EmptyMap == [x \in {} |-> 0]

\* ---------------------------------------------------------------- felts
uninitialized_felt == 0
default_storage_value == uninitialized_felt

\* ---------------------------------------------------------------- readers
\* Faulty variant: an absent cell is an error instead of the default value.
DictStateReader_get_storage_at_failsOnAbsent(contract_storage_key_to_value, contract_storage_key) ==
    IF contract_storage_key \in DOMAIN contract_storage_key_to_value
    THEN Ok(contract_storage_key_to_value[contract_storage_key])
    ELSE Err(SourceUnavailable)

\* DictStateReader::get_storage_at on the map contract_storage_key_to_value:
\* .get(&key).copied().unwrap_or_else(default_storage_value), wrapped in Ok.
DictStateReader_get_storage_at(contract_storage_key_to_value, contract_storage_key) ==
    LET value == IF MapGet(contract_storage_key_to_value, contract_storage_key) = None
                 THEN default_storage_value
                 ELSE MapGet(contract_storage_key_to_value, contract_storage_key)[2]
    IN  Ok(value)

\* StateReader::get_storage_at of the injected reader SR: any implementation
\* answering Result<StarkFelt>.  The reader of the model fails a query when
\* `fails` (an input of the call) and answers as a DictStateReader otherwise.
StateReader_get_storage_at(sr, contract_storage_key, fails) ==
    IF fails
    THEN Err(SourceUnavailable)
    ELSE DictStateReader_get_storage_at(sr.contract_storage_key_to_value,
                                        contract_storage_key)

\* The outcome of a call that panics (unimplemented!()) instead of returning.
Panic(msg) == [ok |-> FALSE, panic |-> msg]
NotImplemented == "not implemented"

\* StateReader::get_nonce_at: the provided method of the trait, whose body is
\* unimplemented!(); impl StateReader for DictStateReader does not override it.
StateReader_get_nonce_at(sr, contract_address) == Panic(NotImplemented)

\* ---------------------------------------------------------------- StateCache
\* StateCache::default()
StateCache_default == [storage_initial_values |-> EmptyMap,
                       storage_writes         |-> EmptyMap]

\* Faulty variant: the initial-value layer shadows the write layer.
StateCache_get_storage_at_initialFirst(c, contract_storage_key) ==
    IF MapGet(c.storage_initial_values, contract_storage_key) # None
    THEN MapGet(c.storage_initial_values, contract_storage_key)
    ELSE MapGet(c.storage_writes, contract_storage_key)

\* self.storage_writes.get(&k).or_else(|| self.storage_initial_values.get(&k))
StateCache_get_storage_at(c, contract_storage_key) ==
    IF MapGet(c.storage_writes, contract_storage_key) # None
    THEN MapGet(c.storage_writes, contract_storage_key)
    ELSE MapGet(c.storage_initial_values, contract_storage_key)

\* Variant: insert-if-absent, an entry already recorded is kept.
StateCache_set_storage_initial_values_ifAbsent(c, contract_storage_key, value) ==
    IF contract_storage_key \in DOMAIN c.storage_initial_values
    THEN c
    ELSE [c EXCEPT !.storage_initial_values =
                       MapInsert(c.storage_initial_values, contract_storage_key, value)]

\* Faulty variant: the value read is not recorded.
StateCache_set_storage_initial_values_noop(c, contract_storage_key, value) == c

\* Faulty variant: the value read is recorded in the write layer as well.
StateCache_set_storage_initial_values_alsoWrites(c, contract_storage_key, value) ==
    [storage_initial_values |-> MapInsert(c.storage_initial_values, contract_storage_key, value),
     storage_writes         |-> MapInsert(c.storage_writes, contract_storage_key, value)]

\* self.storage_initial_values.insert(contract_storage_key, value)
StateCache_set_storage_initial_values(c, contract_storage_key, value) ==
    [c EXCEPT !.storage_initial_values =
                  MapInsert(c.storage_initial_values, contract_storage_key, value)]

\* Faulty variant: the value written is recorded as the initial value as well.
StateCache_set_storage_writes_alsoInitial(c, contract_storage_key, value) ==
    [storage_initial_values |-> MapInsert(c.storage_initial_values, contract_storage_key, value),
     storage_writes         |-> MapInsert(c.storage_writes, contract_storage_key, value)]

\* Faulty variant: the write is keyed by the contract address alone.
StateCache_set_storage_writes_byAddress(c, contract_storage_key, value) ==
    [c EXCEPT !.storage_writes =
        [x \in (DOMAIN c.storage_writes)
                   \cup {y \in ContractStorageKey : y[1] = contract_storage_key[1]}
            |-> IF x[1] = contract_storage_key[1] THEN value ELSE c.storage_writes[x]]]

\* Faulty variant: a write removes the cell's initial value.
StateCache_set_storage_writes_dropsInitial(c, contract_storage_key, value) ==
    [storage_initial_values |->
         [x \in (DOMAIN c.storage_initial_values) \ {contract_storage_key}
              |-> c.storage_initial_values[x]],
     storage_writes |-> MapInsert(c.storage_writes, contract_storage_key, value)]

\* self.storage_writes.insert(contract_storage_key, value)
StateCache_set_storage_writes(c, contract_storage_key, value) ==
    [c EXCEPT !.storage_writes =
                  MapInsert(c.storage_writes, contract_storage_key, value)]

\* ---------------------------------------------------------------- CachedState
\* Faulty variant: a failed query records the default value as initial value.
CachedState_get_storage_at_fillsOnError(sr, c, contract_storage_key, fails) ==
    LET miss    == StateCache_get_storage_at(c, contract_storage_key) = None
        queried == StateReader_get_storage_at(sr, contract_storage_key, fails)
    IN  IF miss /\ ~queried.ok
        THEN [cache   |-> StateCache_set_storage_initial_values(
                              c, contract_storage_key, default_storage_value),
              result  |-> Err(queried.error),
              queried |-> TRUE,
              answer  |-> Some(queried)]
        ELSE LET filled == IF miss
                           THEN StateCache_set_storage_initial_values(
                                    c, contract_storage_key, queried.value)
                           ELSE c
                 found  == StateCache_get_storage_at(filled, contract_storage_key)
             IN  [cache   |-> filled,
                  result  |-> IF found = None THEN Err(CannotRetrieve) ELSE Ok(found[2]),
                  queried |-> miss,
                  answer  |-> IF miss THEN Some(queried) ELSE None]

\* Faulty variant: the reader is queried and the initial value recorded on
\* every call, without looking in the cache first.
CachedState_get_storage_at_alwaysQueries(sr, c, contract_storage_key, fails) ==
    LET queried == StateReader_get_storage_at(sr, contract_storage_key, fails)
    IN  IF ~queried.ok
        THEN [cache   |-> c,
              result  |-> Err(queried.error),
              queried |-> TRUE,
              answer  |-> Some(queried)]
        ELSE LET filled == StateCache_set_storage_initial_values(
                               c, contract_storage_key, queried.value)
                 found  == StateCache_get_storage_at(filled, contract_storage_key)
             IN  [cache   |-> filled,
                  result  |-> IF found = None THEN Err(CannotRetrieve) ELSE Ok(found[2]),
                  queried |-> TRUE,
                  answer  |-> Some(queried)]

\* CachedState::get_storage_at as a function of the reader and the cache.
\* Answers the cache after the call, the call's result, whether the state
\* reader was queried and, if so, what it answered.
CachedState_get_storage_at(sr, c, contract_storage_key, fails) ==
    \* if self.cache.get_storage_at(contract_address, key).is_none()
    LET miss    == StateCache_get_storage_at(c, contract_storage_key) = None
        \* let storage_value = self.state_reader.get_storage_at(..)?;
        queried == StateReader_get_storage_at(sr, contract_storage_key, fails)
    IN  IF miss /\ ~queried.ok
        THEN \* the ? operator returns the reader's error
             [cache   |-> c,
              result  |-> Err(queried.error),
              queried |-> TRUE,
              answer  |-> Some(queried)]
        ELSE LET filled == IF miss
                           THEN StateCache_set_storage_initial_values(
                                    c, contract_storage_key, queried.value)
                           ELSE c
                 found  == StateCache_get_storage_at(filled, contract_storage_key)
             IN  [cache   |-> filled,
                  result  |-> IF found = None THEN Err(CannotRetrieve) ELSE Ok(found[2]),
                  queried |-> miss,
                  answer  |-> IF miss THEN Some(queried) ELSE None]

\* CachedState::set_storage_at: the cache after the call.
CachedState_set_storage_at(c, contract_storage_key, value) ==
    StateCache_set_storage_writes(c, contract_storage_key, value)

\* ---------------------------------------------------------------- state
VARIABLES
    state_reader,   \* CachedState.state_reader (pub): the injected reader, a dictionary
    cache,          \* CachedState.cache: the private StateCache
    queries,        \* per cell, the number of queries the cache made to the reader
    lastOp,         \* the last call made and what it returned
    lastSet,        \* per cell written so far, the value of its last set_storage_at
    firstRead,      \* per cell read successfully while unwritten, what the reader then held
    lastGot,        \* per cell, the value its last successful get_storage_at returned
    everGet,        \* the cells on which get_storage_at was ever called
    nOps,           \* number of calls made so far
    nChanges,       \* number of changes made to the reader so far
    writtenUnread,  \* the cells whose first call was a set_storage_at
    callers,        \* per caller, its position inside an interleaved get_storage_at
    vm              \* the VirtualMachine extract_execution_return_data reads

vars == <<state_reader, cache, queries, lastOp, lastSet, firstRead, lastGot,
          everGet, nOps, nChanges, writtenUnread, callers, vm>>

\* No get_storage_at call is in progress.
NoCallers == <<>>
\* No VirtualMachine has run.
NoVm == <<>>

\* CachedState::new(DictStateReader::default()): empty reader, empty cache.
Init ==
    /\ state_reader = [contract_storage_key_to_value |-> EmptyMap]
    /\ cache = StateCache_default
    /\ queries = [k \in ContractStorageKey |-> 0]
    /\ lastOp = [op |-> "new"]
    /\ lastSet = EmptyMap
    /\ firstRead = EmptyMap
    /\ lastGot = EmptyMap
    /\ everGet = {}
    /\ nOps = 0
    /\ nChanges = 0
    /\ writtenUnread = {}
    /\ callers = NoCallers
    /\ vm = NoVm

\* state.get_storage_at(contract_address, key); `fails` tells whether the
\* state reader fails the query, if the call makes one.
get_storage_at(k, fails) ==
    LET r == CachedState_get_storage_at(state_reader, cache, k, fails)
    IN  /\ nOps < MaxOps
        /\ r.queried => queries[k] < MaxQueries
        /\ cache' = r.cache
        /\ queries' = IF r.queried THEN [queries EXCEPT ![k] = @ + 1] ELSE queries
        /\ lastOp' = [op |-> "get_storage_at", cell |-> k, result |-> r.result,
                      queried |-> r.queried, answer |-> r.answer]
        /\ firstRead' = IF r.result.ok /\ k \notin DOMAIN lastSet /\ k \notin DOMAIN firstRead
                        THEN MapInsert(firstRead, k,
                                 IF k \in DOMAIN state_reader.contract_storage_key_to_value
                                 THEN state_reader.contract_storage_key_to_value[k]
                                 ELSE uninitialized_felt)
                        ELSE firstRead
        /\ lastGot' = IF r.result.ok THEN MapInsert(lastGot, k, r.result.value) ELSE lastGot
        /\ everGet' = everGet \cup {k}
        /\ nOps' = nOps + 1
        /\ UNCHANGED <<state_reader, lastSet, nChanges, writtenUnread, callers, vm>>

\* state.set_storage_at(contract_address, key, value)
set_storage_at(k, v) ==
    /\ nOps < MaxOps
    /\ cache' = CachedState_set_storage_at(cache, k, v)
    /\ lastOp' = [op |-> "set_storage_at", cell |-> k, value |-> v, result |-> Unit]
    /\ lastSet' = MapInsert(lastSet, k, v)
    /\ writtenUnread' = IF k \notin everGet /\ k \notin DOMAIN lastSet
                        THEN writtenUnread \cup {k}
                        ELSE writtenUnread
    /\ nOps' = nOps + 1
    /\ UNCHANGED <<state_reader, queries, firstRead, lastGot, everGet, nChanges,
                   callers, vm>>

\* A call has panicked: the thread unwinds and makes no further call.
Panicked == lastOp.op = "DictStateReader::get_nonce_at" /\ ~lastOp.result.ok

\* DictStateReader::get_storage_at(&state.state_reader, contract_address, key),
\* called on the reader directly, not through the cache.
dict_get_storage_at(k) ==
    /\ nOps < MaxOps
    /\ ~Panicked
    /\ lastOp' = [op |-> "DictStateReader::get_storage_at", cell |-> k,
                  result |-> DictStateReader_get_storage_at(
                                 state_reader.contract_storage_key_to_value, k)]
    /\ nOps' = nOps + 1
    /\ UNCHANGED <<state_reader, cache, queries, lastSet, firstRead, lastGot,
                   everGet, nChanges, writtenUnread, callers, vm>>

\* DictStateReader::get_nonce_at(&state.state_reader, contract_address): the
\* trait's provided method.
dict_get_nonce_at(a) ==
    /\ nOps < MaxOps
    /\ ~Panicked
    /\ lastOp' = [op |-> "DictStateReader::get_nonce_at", address |-> a,
                  result |-> StateReader_get_nonce_at(state_reader, a)]
    /\ nOps' = nOps + 1
    /\ UNCHANGED <<state_reader, cache, queries, lastSet, firstRead, lastGot,
                   everGet, nChanges, writtenUnread, callers, vm>>

\* The owner of the reader changes what it holds for a cell
\* (state.state_reader.contract_storage_key_to_value.insert(k, v)).
reader_insert(k, v) ==
    /\ nChanges < MaxReaderChanges
    /\ ~Panicked
    /\ MapGet(state_reader.contract_storage_key_to_value, k) # Some(v)
    /\ state_reader' = [state_reader EXCEPT !.contract_storage_key_to_value =
                                                MapInsert(@, k, v)]
    /\ nChanges' = nChanges + 1
    /\ UNCHANGED <<cache, queries, lastOp, lastSet, firstRead, lastGot, everGet, nOps,
                   writtenUnread, callers, vm>>

Next ==
    \/ \E k \in ContractStorageKey, fails \in BOOLEAN : get_storage_at(k, fails)
    \/ \E k \in ContractStorageKey, v \in StarkFelt : set_storage_at(k, v)
    \/ \E k \in ContractStorageKey, v \in StarkFelt : reader_insert(k, v)

Spec == Init /\ [][Next]_vars

\* ---------------------------------------------------------------- DictStateReader alone
\* All maps a DictStateReader can hold over the cells drawn as inputs.
DictMaps == UNION {[S -> StarkFelt] : S \in SUBSET ContractStorageKey}

\* A CachedState built on a DictStateReader holding any map.
InitDict ==
    /\ state_reader \in [contract_storage_key_to_value : DictMaps]
    /\ cache = StateCache_default
    /\ queries = [k \in ContractStorageKey |-> 0]
    /\ lastOp = [op |-> "new"]
    /\ lastSet = EmptyMap
    /\ firstRead = EmptyMap
    /\ lastGot = EmptyMap
    /\ everGet = {}
    /\ nOps = 0
    /\ nChanges = 0
    /\ writtenUnread = {}
    /\ callers = NoCallers
    /\ vm = NoVm

NextDict ==
    \/ \E k \in ContractStorageKey : dict_get_storage_at(k)
    \/ \E a \in Addresses : dict_get_nonce_at(a)
    \/ \E k \in ContractStorageKey, v \in StarkFelt : reader_insert(k, v)

\* DictStateReader's StateReader methods applied to every map and every cell.
SpecDict == InitDict /\ [][NextDict]_vars

\* ---------------------------------------------------------------- StateCache alone
\* Largest number of calls made on a StateCache in one behaviour.
MaxCacheOps == 2

\* A StateCache whose two layers hold any maps.
InitCache ==
    /\ cache \in [storage_initial_values : DictMaps, storage_writes : DictMaps]
    /\ state_reader = [contract_storage_key_to_value |-> EmptyMap]
    /\ queries = [k \in ContractStorageKey |-> 0]
    /\ lastOp = [op |-> "new"]
    /\ lastSet = EmptyMap
    /\ firstRead = EmptyMap
    /\ lastGot = EmptyMap
    /\ everGet = {}
    /\ nOps = 0
    /\ nChanges = 0
    /\ writtenUnread = {}
    /\ callers = NoCallers
    /\ vm = NoVm

\* cache.get_storage_at(contract_address, key)
cache_get_storage_at(k) ==
    /\ nOps < MaxCacheOps
    /\ lastOp' = [op |-> "StateCache::get_storage_at", cell |-> k,
                  result |-> StateCache_get_storage_at(cache, k)]
    /\ nOps' = nOps + 1
    /\ UNCHANGED <<state_reader, cache, queries, lastSet, firstRead, lastGot,
                   everGet, nChanges, writtenUnread, callers, vm>>

\* cache.set_storage_initial_values(contract_address, key, value)
cache_set_storage_initial_values(k, v) ==
    /\ nOps < MaxCacheOps
    /\ cache' = StateCache_set_storage_initial_values(cache, k, v)
    /\ lastOp' = [op |-> "StateCache::set_storage_initial_values", cell |-> k,
                  value |-> v]
    /\ nOps' = nOps + 1
    /\ UNCHANGED <<state_reader, queries, lastSet, firstRead, lastGot,
                   everGet, nChanges, writtenUnread, callers, vm>>

NextCache ==
    \/ \E k \in ContractStorageKey : cache_get_storage_at(k)
    \/ \E k \in ContractStorageKey, v \in StarkFelt :
           cache_set_storage_initial_values(k, v)

\* StateCache's methods applied to every contents of the two layers.
SpecCache == InitCache /\ [][NextCache]_vars

\* ---------------------------------------------------------------- interleaved get_storage_at
\* The steps of CachedState::get_storage_at (check cache, query source, record
\* initial, re-check) taken one at a time by two callers on one CachedState.
Callers == {"caller1", "caller2"}
\* Largest number of set_storage_at calls interleaved with the two reads.
MaxConcWrites == 1

\* A caller that has not called get_storage_at yet.
IdleCaller == [pc |-> "idle", cell |-> None, storage_value |-> None,
               replaced |-> None, written_since_fill |-> FALSE, result |-> None]

InitConc ==
    /\ state_reader = [contract_storage_key_to_value |-> EmptyMap]
    /\ cache = StateCache_default
    /\ queries = [k \in ContractStorageKey |-> 0]
    /\ lastOp = [op |-> "new"]
    /\ lastSet = EmptyMap
    /\ firstRead = EmptyMap
    /\ lastGot = EmptyMap
    /\ everGet = {}
    /\ nOps = 0
    /\ nChanges = 0
    /\ writtenUnread = {}
    /\ callers = [p \in Callers |-> IdleCaller]
    /\ vm = NoVm

ConcFrame == <<state_reader, lastOp, lastSet, firstRead, lastGot, everGet,
               nChanges, writtenUnread, vm>>

\* if self.cache.get_storage_at(contract_address, key).is_none()
conc_check(p, k) ==
    /\ callers[p].pc = "idle"
    /\ callers' = [callers EXCEPT ![p] =
           [IdleCaller EXCEPT
               !.pc = IF StateCache_get_storage_at(cache, k) = None
                      THEN "query" ELSE "reread",
               !.cell = k]]
    /\ UNCHANGED <<cache, queries, nOps>>
    /\ UNCHANGED ConcFrame

\* let storage_value = self.state_reader.get_storage_at(contract_address, key)?;
conc_query(p, fails) ==
    LET k      == callers[p].cell
        answer == StateReader_get_storage_at(state_reader, k, fails)
    IN  /\ callers[p].pc = "query"
        /\ queries' = [queries EXCEPT ![k] = @ + 1]
        /\ callers' = [callers EXCEPT ![p] =
               IF answer.ok
               THEN [@ EXCEPT !.pc = "fill", !.storage_value = Some(answer.value)]
               ELSE [@ EXCEPT !.pc = "done", !.result = Some(Err(answer.error))]]
        /\ UNCHANGED <<cache, nOps>>
        /\ UNCHANGED ConcFrame

\* self.cache.set_storage_initial_values(contract_address, key, storage_value);
\* `replaced` is what the insert found at the key.
conc_fill(p) ==
    LET k == callers[p].cell
    IN  /\ callers[p].pc = "fill"
        /\ cache' = StateCache_set_storage_initial_values(
                         cache, k, callers[p].storage_value[2])
        /\ callers' = [callers EXCEPT ![p] =
               [@ EXCEPT !.pc = "reread",
                         !.replaced = MapGet(cache.storage_initial_values, k)]]
        /\ UNCHANGED <<queries, nOps>>
        /\ UNCHANGED ConcFrame

\* self.cache.get_storage_at(contract_address, key).with_context(..)
conc_reread(p) ==
    LET found == StateCache_get_storage_at(cache, callers[p].cell)
    IN  /\ callers[p].pc = "reread"
        /\ callers' = [callers EXCEPT ![p] =
               [@ EXCEPT !.pc = "done",
                         !.result = Some(IF found = None
                                         THEN Err(CannotRetrieve)
                                         ELSE Ok(found[2]))]]
        /\ UNCHANGED <<cache, queries, nOps>>
        /\ UNCHANGED ConcFrame

\* state.set_storage_at(contract_address, key, value), a single insert, made
\* between the steps of the two reads.
conc_set_storage_at(k, v) ==
    /\ nOps < MaxConcWrites
    /\ cache' = CachedState_set_storage_at(cache, k, v)
    /\ callers' = [p \in Callers |->
           IF callers[p].pc = "reread" /\ callers[p].storage_value # None
              /\ callers[p].cell = k
           THEN [callers[p] EXCEPT !.written_since_fill = TRUE]
           ELSE callers[p]]
    /\ nOps' = nOps + 1
    /\ UNCHANGED queries
    /\ UNCHANGED ConcFrame

NextConc ==
    \/ \E p \in Callers, k \in ContractStorageKey : conc_check(p, k)
    \/ \E p \in Callers, fails \in BOOLEAN : conc_query(p, fails)
    \/ \E p \in Callers : conc_fill(p)
    \/ \E p \in Callers : conc_reread(p)
    \/ \E k \in ContractStorageKey, v \in StarkFelt : conc_set_storage_at(k, v)
    \/ \E k \in ContractStorageKey, v \in StarkFelt : reader_insert(k, v)

SpecConc == InitConc /\ [][NextConc]_vars

\* ---------------------------------------------------------------- extract_execution_return_data
\* Largest integer drawn as the VM's first return value (return_data_size).
MaxReturnSize == 4
\* Largest number of memory cells present from return_data_ptr on.
MaxMemLen == 4

\* cairo_rs MaybeRelocatable
MaybeRelocatable_Int(n) == <<"Int", n>>
RelocatableValue == <<"RelocatableValue">>
\* VirtualMachineError kinds the function bails with.
ExpectedInteger == "ExpectedInteger"
NoneInMemoryRange == "NoneInMemoryRange"
NegativeBigInt == "The given BigInt is negative"

\* A memory cell: Option<MaybeRelocatable>.
MemCells == {None, Some(RelocatableValue)} \cup {Some(MaybeRelocatable_Int(v)) : v \in StarkFelt}

\* The VirtualMachine after the run, as far as the function reads it: the two
\* return values (the second, return_data_ptr, points at memory[1]) and the
\* cells present from return_data_ptr on.
VirtualMachines ==
    [return_data_size : {MaybeRelocatable_Int(n) : n \in 0 .. MaxReturnSize} \cup {RelocatableValue},
     memory : UNION {[1 .. n -> MemCells] : n \in 0 .. MaxMemLen}]

\* num_bigint BigInt::bits: the number of bits of the magnitude, 0 for zero.
RECURSIVE BigInt_bits(_)
BigInt_bits(n) == IF n = 0 THEN 0 ELSE 1 + BigInt_bits(n \div 2)

\* bigint_to_felt: a negative BigInt is an error, the others become a felt
\* through their hexadecimal form.
bigint_to_felt(bigint) ==
    IF bigint < 0 THEN Err(NegativeBigInt) ELSE Ok(bigint)

\* vm.get_range(&return_data_ptr, size): `size` cells from the pointer on, None
\* for a cell that holds nothing.
VirtualMachine_get_range(v, size) ==
    [i \in 1 .. size |-> IF i <= Len(v.memory) THEN v.memory[i] ELSE None]

\* The closure mapped over the range: one cell to Result<StarkFelt>.
ExtractCell(x) ==
    IF x = None THEN Err(NoneInMemoryRange)
    ELSE IF x[2] = RelocatableValue THEN Err(ExpectedInteger)
    ELSE bigint_to_felt(x[2][2])

\* extract_execution_return_data(&vm)
extract_execution_return_data(v) ==
    IF v.return_data_size = RelocatableValue
    THEN Err(ExpectedInteger)
    ELSE LET \* MaybeRelocatable::Int(return_data_size) => return_data_size.bits() as usize
             return_data_size == BigInt_bits(v.return_data_size[2])
             values == VirtualMachine_get_range(v, return_data_size)
             felts  == [i \in 1 .. return_data_size |-> ExtractCell(values[i])]
             failed == {i \in 1 .. return_data_size : ~felts[i].ok}
         IN  \* collect() into Result<Vec<_>>: the first error, or all the values
             IF failed # {}
             THEN felts[CHOOSE i \in failed : \A j \in failed : i <= j]
             ELSE Ok([i \in 1 .. return_data_size |-> felts[i].value])

\* The state after run_from_entrypoint: any VirtualMachine.
InitExtract ==
    /\ vm \in VirtualMachines
    /\ state_reader = [contract_storage_key_to_value |-> EmptyMap]
    /\ cache = StateCache_default
    /\ queries = [k \in ContractStorageKey |-> 0]
    /\ lastOp = [op |-> "new"]
    /\ lastSet = EmptyMap
    /\ firstRead = EmptyMap
    /\ lastGot = EmptyMap
    /\ everGet = {}
    /\ nOps = 0
    /\ nChanges = 0
    /\ writtenUnread = {}
    /\ callers = NoCallers

\* extract_execution_return_data(&vm), the last step of execute_call_entry_point
extract ==
    /\ lastOp.op = "new"
    /\ lastOp' = [op |-> "extract_execution_return_data",
                  result |-> extract_execution_return_data(vm)]
    /\ UNCHANGED <<state_reader, cache, queries, lastSet, firstRead, lastGot,
                   everGet, nOps, nChanges, writtenUnread, callers, vm>>

NextExtract == extract

SpecExtract == InitExtract /\ [][NextExtract]_vars

\* ---------------------------------------------------------------- helpers
\* What the reader's dictionary holds for a cell (zero felt when absent).
ReaderHolds(k) ==
    IF k \in DOMAIN state_reader.contract_storage_key_to_value
    THEN state_reader.contract_storage_key_to_value[k]
    ELSE 0

LastIsGet == lastOp.op = "get_storage_at"
LastIsSet == lastOp.op = "set_storage_at"

\* ---------------------------------------------------------------- claims

\* C1 (write shadowing): a get_storage_at on a cell that has been written
\* returns the value of the cell's last set_storage_at, whatever the reader
\* holds for the cell and whether or not the cell was read before the write.
C1_WriteShadowing ==
    (LastIsGet /\ lastOp.cell \in DOMAIN lastSet)
        => lastOp.result = Ok(lastSet[lastOp.cell])

\* A written cell that was read before its write is read again, while the
\* reader holds another value for it than the one written.
C1_Witness ==
    /\ LastIsGet
    /\ lastOp.cell \in DOMAIN lastSet
    /\ lastOp.cell \in DOMAIN firstRead
    /\ firstRead[lastOp.cell] # lastSet[lastOp.cell]
    /\ ReaderHolds(lastOp.cell) # lastSet[lastOp.cell]

\* C2 (read-through idempotence): a get_storage_at on a never-written cell
\* that follows a successful get_storage_at on that cell does not query the
\* state reader and, when it succeeds, returns the value the earlier call
\* returned, also when the reader's value has changed in between.
C2_ReadThroughIdempotence ==
    [][\A k \in ContractStorageKey :
          ((\E fails \in BOOLEAN : get_storage_at(k, fails)) /\ k \in DOMAIN lastGot /\ k \notin DOMAIN lastSet)
              => /\ queries' = queries
                 /\ lastOp'.result.ok => lastOp'.result.value = lastGot[k]]_vars

\* A never-written cell is read a second time, without a query, after the
\* reader's value for it has changed.
C2_Witness ==
    /\ LastIsGet
    /\ lastOp.cell \notin DOMAIN lastSet
    /\ ~lastOp.queried
    /\ lastOp.result.ok
    /\ queries[lastOp.cell] = 1
    /\ ReaderHolds(lastOp.cell) # lastOp.result.value

\* C3 (never-delete): a get_storage_at on a cell for which an earlier
\* get_storage_at succeeded never queries the state reader, whatever calls
\* were made in between.
C3_NeverDelete ==
    [][\A k \in ContractStorageKey :
          ((\E fails \in BOOLEAN : get_storage_at(k, fails)) /\ k \in DOMAIN lastGot)
              => queries'[k] = queries[k]]_vars

\* A cell resolved by a read and written afterwards is read again: the
\* reader has been queried once for it.
C3_Witness ==
    /\ LastIsGet
    /\ nOps = 3
    /\ lastOp.cell \in DOMAIN firstRead
    /\ lastOp.cell \in DOMAIN lastSet
    /\ ~lastOp.queried
    /\ queries[lastOp.cell] = 1

\* C4 (initial-value stability): a cell read while the reader held v0 and
\* written with v1 afterwards has v0 in storage_initial_values and v1 in
\* storage_writes, after any further calls.
C4_InitialValueStability ==
    \A k \in ContractStorageKey :
        (k \in DOMAIN firstRead /\ k \in DOMAIN lastSet)
            => /\ MapGet(cache.storage_initial_values, k) = Some(firstRead[k])
               /\ MapGet(cache.storage_writes, k) = Some(lastSet[k])

\* A cell was read with a non-default v0, written with another v1, and a
\* call on another cell followed.
C4_Witness ==
    \E k \in ContractStorageKey :
        /\ k \in DOMAIN firstRead /\ k \in DOMAIN lastSet
        /\ firstRead[k] # uninitialized_felt
        /\ firstRead[k] # lastSet[k]
        /\ (LastIsGet \/ LastIsSet) /\ lastOp.cell # k

\* C5 (write-without-read diff default): a cell written without ever having
\* been read has the last written value in storage_writes and no entry in
\* storage_initial_values, so its value before is the uninitialized felt.
C5_WriteWithoutRead ==
    \A k \in ContractStorageKey :
        (k \in DOMAIN lastSet /\ k \notin everGet)
            => /\ MapGet(cache.storage_writes, k) = Some(lastSet[k])
               /\ MapGet(cache.storage_initial_values, k) = None

\* A never-read cell is written while the reader holds a non-default value
\* for it.
C5_Witness ==
    /\ LastIsSet
    /\ lastOp.cell \notin everGet
    /\ lastOp.value # uninitialized_felt
    /\ ReaderHolds(lastOp.cell) # uninitialized_felt

\* C6 (no-write exclusion): get_storage_at leaves storage_writes unchanged,
\* on a hit, on a miss and on a failed query, and storage_writes holds no
\* cell that set_storage_at was never called on.
C6_NoWriteExclusion ==
    /\ [](DOMAIN cache.storage_writes \subseteq DOMAIN lastSet)
    /\ [][\A k \in ContractStorageKey :
             (\E fails \in BOOLEAN : get_storage_at(k, fails))
                 => cache'.storage_writes = cache.storage_writes]_vars

\* A cell resolved by a miss is read again (a hit) and is in no write layer.
C6_Witness ==
    /\ LastIsGet
    /\ ~lastOp.queried
    /\ lastOp.cell \in DOMAIN cache.storage_initial_values
    /\ lastOp.cell \notin DOMAIN cache.storage_writes

\* C7: set_storage_at returns unit, makes no query to the state reader,
\* leaves the reader and storage_initial_values unchanged; the key set of
\* storage_initial_values changes only in a get_storage_at that queried the
\* reader successfully.
C7_SetStorageFrame ==
    [][/\ \A k \in ContractStorageKey, v \in StarkFelt :
             set_storage_at(k, v)
                 => /\ lastOp'.result = Unit
                    /\ queries' = queries
                    /\ state_reader' = state_reader
                    /\ cache'.storage_initial_values = cache.storage_initial_values
       /\ (DOMAIN cache'.storage_initial_values # DOMAIN cache.storage_initial_values)
             => \E k \in ContractStorageKey :
                   /\ get_storage_at(k, FALSE)
                   /\ lastOp'.queried /\ lastOp'.result.ok
                   /\ DOMAIN cache'.storage_initial_values
                          = DOMAIN cache.storage_initial_values \cup {k}]_vars

\* A cell with no initial value, for which the reader holds a non-default
\* value, is written while another cell has an initial value.
C7_Witness ==
    /\ LastIsSet
    /\ lastOp.cell \notin DOMAIN cache.storage_initial_values
    /\ ReaderHolds(lastOp.cell) # uninitialized_felt
    /\ cache.storage_initial_values # EmptyMap

\* C8 (atomic miss-then-fill): a get_storage_at whose query to the state
\* reader is answered with an error returns that error and leaves both
\* layers of the cache as they were.
C8_AtomicMissThenFill ==
    [][\A k \in ContractStorageKey :
          (/\ \E fails \in BOOLEAN : get_storage_at(k, fails)
           /\ queries'[k] # queries[k]
           /\ ~lastOp'.answer[2].ok)
              => /\ lastOp'.result = Err(lastOp'.answer[2].error)
                 /\ lastOp'.result # Err(CannotRetrieve)
                 /\ cache' = cache]_vars

\* A read fails while the cache holds a resolved cell and a written cell.
C8_Witness ==
    /\ LastIsGet
    /\ lastOp.queried
    /\ lastOp.answer = Some(Err(SourceUnavailable))
    /\ lastOp.result = Err(SourceUnavailable)
    /\ cache.storage_initial_values # EmptyMap
    /\ cache.storage_writes # EmptyMap
    /\ lastOp.cell \notin DOMAIN cache.storage_initial_values

\* C9 (append-only layers): no step removes a key from
\* storage_initial_values or from storage_writes.
C9_AppendOnly ==
    [][/\ DOMAIN cache.storage_initial_values \subseteq DOMAIN cache'.storage_initial_values
       /\ DOMAIN cache.storage_writes \subseteq DOMAIN cache'.storage_writes]_vars

\* A cell that has an initial value has been written, and a third call made.
C9_Witness ==
    /\ nOps = 3
    /\ \E k \in ContractStorageKey :
          /\ k \in DOMAIN cache.storage_initial_values
          /\ k \in DOMAIN cache.storage_writes

\* C10: DictStateReader::get_storage_at answers Ok, never an error, leaves
\* the reader's map unchanged, and the value is the stored one when the cell
\* is in contract_storage_key_to_value and the zero felt when it is absent.
C10_DictReaderTotal ==
    [][\A k \in ContractStorageKey :
          dict_get_storage_at(k)
              => /\ state_reader' = state_reader
                 /\ lastOp'.result =
                        Ok(IF k \in DOMAIN state_reader.contract_storage_key_to_value
                           THEN state_reader.contract_storage_key_to_value[k]
                           ELSE 0)]_vars

\* The DictStateReader is read at a cell absent from its map, while the map
\* holds a non-zero value for another cell.
C10_Witness ==
    /\ lastOp.op = "DictStateReader::get_storage_at"
    /\ lastOp.cell \notin DOMAIN state_reader.contract_storage_key_to_value
    /\ lastOp.result = Ok(0)
    /\ \E k \in DOMAIN state_reader.contract_storage_key_to_value :
          state_reader.contract_storage_key_to_value[k] # 0

\* C11: get_nonce_at on the DictStateReader, which has no nonce entry for any
\* address, returns Ok with the default nonce (zero): no error, no panic.
C11_DefaultNonce ==
    lastOp.op = "DictStateReader::get_nonce_at" => lastOp.result = Ok(0)

\* C12 (read precedence): StateCache::get_storage_at returns the value of
\* storage_writes if the key is there, else the value of
\* storage_initial_values if the key is there, else None.
C12_ReadPrecedence ==
    lastOp.op = "StateCache::get_storage_at"
        => lastOp.result =
               IF lastOp.cell \in DOMAIN cache.storage_writes
               THEN Some(cache.storage_writes[lastOp.cell])
               ELSE IF lastOp.cell \in DOMAIN cache.storage_initial_values
                    THEN Some(cache.storage_initial_values[lastOp.cell])
                    ELSE None

\* A key held by both layers with different values is looked up.
C12_Witness ==
    /\ lastOp.op = "StateCache::get_storage_at"
    /\ lastOp.cell \in DOMAIN cache.storage_writes
    /\ lastOp.cell \in DOMAIN cache.storage_initial_values
    /\ cache.storage_writes[lastOp.cell] # cache.storage_initial_values[lastOp.cell]
    /\ lastOp.result = Some(cache.storage_writes[lastOp.cell])

\* C13 (insert-if-absent): set_storage_initial_values on a key already in
\* storage_initial_values leaves the value recorded first in place.
C13_InsertIfAbsent ==
    [][\A k \in ContractStorageKey, v \in StarkFelt :
          (cache_set_storage_initial_values(k, v)
           /\ k \in DOMAIN cache.storage_initial_values)
              => cache'.storage_initial_values[k] = cache.storage_initial_values[k]]_vars

\* C14: once storage_initial_values holds a value for a cell, no get_storage_at
\* or set_storage_at call on the CachedState changes that value, also when the
\* state reader holds another value for the cell by then.
C14_InitialPopulatedOnce ==
    [][\A k \in DOMAIN cache.storage_initial_values :
          MapGet(cache'.storage_initial_values, k)
              = Some(cache.storage_initial_values[k])]_vars

\* A cell with an initial value is read again after the reader's value for it
\* has changed.
C14_Witness ==
    /\ LastIsGet
    /\ ~lastOp.queried
    /\ lastOp.cell \in DOMAIN cache.storage_initial_values
    /\ ReaderHolds(lastOp.cell) # cache.storage_initial_values[lastOp.cell]

\* C15: get_storage_at never returns the "Cannot retrieve ... from the cache"
\* error: when the cell was cached or the query to the state reader
\* succeeded, the call succeeds.
C15_IntegrityErrorUnreachable ==
    LastIsGet
        => /\ lastOp.result # Err(CannotRetrieve)
           /\ (~lastOp.queried \/ lastOp.answer[2].ok) => lastOp.result.ok

\* The third call is a get_storage_at that missed, queried the reader with
\* success and returned the value.
C15_Witness ==
    /\ LastIsGet
    /\ nOps = 3
    /\ lastOp.queried
    /\ lastOp.answer[2].ok
    /\ lastOp.result = lastOp.answer[2]

\* C16 (no internal retry): a get_storage_at on a cell in neither layer
\* queries the state reader exactly once; when the query fails the error is
\* returned and the cell stays in neither layer (so the next get_storage_at
\* on it queries again); when it succeeds the value the reader holds is
\* recorded in storage_initial_values and returned.
C16_NoInternalRetry ==
    [][\A k \in ContractStorageKey :
          (/\ \E fails \in BOOLEAN : get_storage_at(k, fails)
           /\ k \notin DOMAIN cache.storage_writes
           /\ k \notin DOMAIN cache.storage_initial_values)
              => /\ queries'[k] = queries[k] + 1
                 /\ IF lastOp'.answer[2].ok
                    THEN /\ lastOp'.result = Ok(ReaderHolds(k))
                         /\ MapGet(cache'.storage_initial_values, k) = Some(ReaderHolds(k))
                         /\ cache'.storage_writes = cache.storage_writes
                    ELSE /\ lastOp'.result = Err(lastOp'.answer[2].error)
                         /\ cache' = cache]_vars

\* A cell whose first query failed is read again: the reader is queried a
\* second time, and its non-default value is recorded and returned.
C16_Witness ==
    /\ LastIsGet
    /\ lastOp.queried
    /\ queries[lastOp.cell] = 2
    /\ lastOp.result = Ok(ReaderHolds(lastOp.cell))
    /\ ReaderHolds(lastOp.cell) # uninitialized_felt
    /\ MapGet(cache.storage_initial_values, lastOp.cell) = Some(ReaderHolds(lastOp.cell))

\* C17 (write before read): a cell whose first call was a set_storage_at is
\* never queried from the state reader and never gets an entry in
\* storage_initial_values.
C17_WriteBeforeRead ==
    \A k \in writtenUnread :
        /\ queries[k] = 0
        /\ k \notin DOMAIN cache.storage_initial_values

\* A cell written before any read is read, while the reader holds a
\* non-default value for it, other than the one written.
C17_Witness ==
    /\ LastIsGet
    /\ lastOp.cell \in writtenUnread
    /\ ReaderHolds(lastOp.cell) # uninitialized_felt
    /\ ReaderHolds(lastOp.cell) # lastSet[lastOp.cell]
    /\ lastOp.result = Ok(lastSet[lastOp.cell])

\* C18 (cell isolation): a get_storage_at or set_storage_at call on a cell
\* leaves the entries of every other cell unchanged in both layers.
C18_CellIsolation ==
    [][\A k \in ContractStorageKey :
          (\/ \E fails \in BOOLEAN : get_storage_at(k, fails)
           \/ \E v \in StarkFelt : set_storage_at(k, v))
              => \A k2 \in ContractStorageKey \ {k} :
                    /\ MapGet(cache'.storage_initial_values, k2)
                           = MapGet(cache.storage_initial_values, k2)
                    /\ MapGet(cache'.storage_writes, k2)
                           = MapGet(cache.storage_writes, k2)]_vars

\* A cell is written while a cell sharing only its address holds another
\* written value and a cell sharing only its storage key has an initial value.
C18_Witness ==
    /\ LastIsSet
    /\ \E k2 \in DOMAIN cache.storage_writes :
          /\ k2[1] = lastOp.cell[1] /\ k2[2] # lastOp.cell[2]
          /\ cache.storage_writes[k2] # lastOp.value
    /\ \E k3 \in DOMAIN cache.storage_initial_values :
          k3[2] = lastOp.cell[2] /\ k3[1] # lastOp.cell[1]

\* C19 (miss-then-fill is not atomic): when the steps of get_storage_at are
\* interleaved between two callers, a caller's fill records the value it
\* queried whatever another caller recorded for the cell since its check, and
\* its re-read returns what the cache holds then: the written value if the
\* cell has been written since its fill, not the value it queried.
C19_NotAtomic ==
    [][\A p \in Callers :
          /\ conc_fill(p)
                => MapGet(cache'.storage_initial_values, callers[p].cell)
                       = callers[p].storage_value
          /\ conc_reread(p)
                => callers'[p].result =
                       Some(Ok(IF callers[p].cell \in DOMAIN cache.storage_writes
                               THEN cache.storage_writes[callers[p].cell]
                               ELSE cache.storage_initial_values[callers[p].cell]))]_vars

\* Both callers missed on the same cell and each queried the reader, the
\* later fill replaced the value the earlier fill had recorded by another
\* one, and a write made between the later caller's fill and its re-read
\* made it return the written value, not the value it had queried.
C19_Witness ==
    \E p \in Callers, q \in Callers :
        /\ p # q
        /\ callers[p].pc = "done" /\ callers[q].pc = "done"
        /\ callers[p].cell = callers[q].cell
        /\ callers[p].storage_value # None /\ callers[q].storage_value # None
        /\ queries[callers[q].cell] = 2
        /\ callers[q].replaced = callers[p].storage_value
        /\ callers[q].replaced # callers[q].storage_value
        /\ callers[q].written_since_fill
        /\ callers[q].result = Some(Ok(cache.storage_writes[callers[q].cell]))
        /\ callers[q].result # Some(Ok(callers[q].storage_value[2]))

\* C20: extract_execution_return_data returns as many felts as the integer
\* value of return_data_size, read from memory from return_data_ptr on, and
\* fails when return_data_size is not an integer or a cell of that range is
\* empty or relocatable.
C20_ReturnDataSize ==
    lastOp.op = "extract_execution_return_data"
        => IF vm.return_data_size = RelocatableValue
           THEN ~lastOp.result.ok
           ELSE LET n == vm.return_data_size[2]
                IN  IF \A i \in 1 .. n :
                          /\ i <= Len(vm.memory)
                          /\ vm.memory[i] \in {Some(MaybeRelocatable_Int(x)) : x \in StarkFelt}
                    THEN lastOp.result = Ok([i \in 1 .. n |-> vm.memory[i][2][2]])
                    ELSE ~lastOp.result.ok

====
